---------------------------- MODULE Spec2Model ----------------------------
(***************************************************************************)
(* docker/launch_rosbridge.launch.py: the launch description that starts   *)
(* rosbridge_websocket and rosapi_node, and the way a launch run consumes  *)
(* it.                                                                     *)
(*                                                                         *)
(* generate_launch_description() builds three entities and returns them in *)
(* a LaunchDescription.  The entities only mean something once a launch    *)
(* run visits them, so the model also carries the part of a launch run     *)
(* that the file's constructs address: the launch arguments given on the   *)
(* command line (name:=value) are put in the context's launch              *)
(* configurations, the entities are visited in list order, a               *)
(* DeclareLaunchArgument fills in its default when the configuration is    *)
(* still unset, and a Node performs the substitutions of its parameters    *)
(* when it is visited.  A LaunchConfiguration substitution yields the      *)
(* configuration's string as it stands; the typed interpretation of that   *)
(* string by the started node is outside this file and outside the model.  *)
(***************************************************************************)
EXTENDS Integers, Sequences, FiniteSets, TLC

(***************************************************************************)
(* Bounds.                                                                 *)
(***************************************************************************)
\* Number of launch runs a behaviour holds (two runs can be compared).
MaxRuns == 2

\* Values given on the command line as port:=<value>: the default itself, an
\* ordinary port, and values a validating launcher would reject (empty,
\* non-numeric, out of the 16 bit range).
PortValues == {"9090", "8080", "", "abc", "70000"}

(***************************************************************************)
(* Python values.  Values of different Python types are kept apart by the  *)
(* field that carries them.                                                *)
(***************************************************************************)
None == [none |-> TRUE]
PyStr(s) == [str |-> s]
PyBool(b) == [bool |-> b]
PyInt(i) == [int |-> i]
\* A float, by its decimal literal.
PyFloat(lit) == [float |-> lit]

\* A dictionary with no key (no launch argument, no launch configuration).
EmptyDict == [n \in {} |-> ""]

(***************************************************************************)
(* The constructors the file imports.                                      *)
(***************************************************************************)
\* DeclareLaunchArgument(name, default_value=..., description=...); the file
\* passes no choices, which leaves them None.
DeclareLaunchArgument(name, default_value, description) ==
    [kind |-> "DeclareLaunchArgument",
     name |-> name,
     default_value |-> default_value,
     description |-> description,
     choices |-> None]

\* LaunchConfiguration(name): a substitution, performed when the entity that
\* holds it is visited.
LaunchConfiguration(name) == [LaunchConfiguration |-> name]

\* Node(package=, executable=, name=, output=, parameters=); parameters is a
\* list of dictionaries, the empty list when the argument is left out.
Node(package, executable, name, output, parameters) ==
    [kind |-> "Node",
     package |-> package,
     executable |-> executable,
     name |-> name,
     output |-> output,
     parameters |-> parameters]

\* LaunchDescription(entities): the entities in the order given.
LaunchDescription(es) == es

VARIABLES
    pc,                     \* "idle", "load" or "visit": where the launch run is
    run,                    \* number of the launch run (1..MaxRuns, then MaxRuns+1)
    argv,                   \* launch arguments of this run: name -> value
    launch_configurations,  \* the context's launch configurations: name -> value
    entities,               \* the launch description of this run
    idx,                    \* index of the next entity to visit
    declared,               \* names of the arguments whose declaration was visited
    spawned,                \* the process specs started so far, resolved
    outcome,                \* "ok", or the error that ended the run
    history                 \* the finished runs, in order

vars == <<pc, run, argv, launch_configurations, entities, idx, declared,
          spawned, outcome, history>>

(***************************************************************************)
(* generate_launch_description                                             *)
(***************************************************************************)
\* Variants of port_arg: another default; a default that is not the same on
\* every call; a declaration that restricts the values it accepts.
port_arg_other_default ==
    DeclareLaunchArgument("port", PyStr("8080"),
                          "Port for rosbridge websocket server")

port_arg_default_per_call ==
    DeclareLaunchArgument("port",
                          IF Len(history) = 0 THEN PyStr("9090") ELSE PyStr("9091"),
                          "Port for rosbridge websocket server")

port_arg_with_choices ==
    [DeclareLaunchArgument("port", PyStr("9090"),
                           "Port for rosbridge websocket server")
        EXCEPT !.choices = [set |-> {"9090", "8080"}]]

port_arg ==
    DeclareLaunchArgument("port", PyStr("9090"),
                          "Port for rosbridge websocket server")

\* Variants of rosbridge_node: the port written as a literal; a parameter
\* left out; a second parameter taken from the port configuration.
rosbridge_node_literal_port ==
    Node("rosbridge_server", "rosbridge_websocket", "rosbridge_websocket",
         "screen",
         << [port |-> PyStr("9090"),
             address |-> PyStr("0.0.0.0"),
             use_compression |-> PyBool(FALSE),
             max_message_size |-> PyInt(10000000),
             send_action_goals_in_new_thread |-> PyBool(TRUE),
             call_services_in_new_thread |-> PyBool(TRUE),
             default_call_service_timeout |-> PyFloat("5.0")] >>)

rosbridge_node_no_timeout ==
    Node("rosbridge_server", "rosbridge_websocket", "rosbridge_websocket",
         "screen",
         << [port |-> LaunchConfiguration("port"),
             address |-> PyStr("0.0.0.0"),
             use_compression |-> PyBool(FALSE),
             max_message_size |-> PyInt(10000000),
             send_action_goals_in_new_thread |-> PyBool(TRUE),
             call_services_in_new_thread |-> PyBool(TRUE)] >>)

rosbridge_node_size_from_port ==
    Node("rosbridge_server", "rosbridge_websocket", "rosbridge_websocket",
         "screen",
         << [port |-> LaunchConfiguration("port"),
             address |-> PyStr("0.0.0.0"),
             use_compression |-> PyBool(FALSE),
             max_message_size |-> LaunchConfiguration("port"),
             send_action_goals_in_new_thread |-> PyBool(TRUE),
             call_services_in_new_thread |-> PyBool(TRUE),
             default_call_service_timeout |-> PyFloat("5.0")] >>)

rosbridge_node ==
    Node("rosbridge_server", "rosbridge_websocket", "rosbridge_websocket",
         "screen",
         << [port |-> LaunchConfiguration("port"),
             address |-> PyStr("0.0.0.0"),
             use_compression |-> PyBool(FALSE),
             max_message_size |-> PyInt(10000000),
             send_action_goals_in_new_thread |-> PyBool(TRUE),
             call_services_in_new_thread |-> PyBool(TRUE),
             default_call_service_timeout |-> PyFloat("5.0")] >>)

\* Variants of rosapi_node: the port handed to it as well; its output sent
\* to the log.
rosapi_node_with_port ==
    Node("rosapi", "rosapi_node", "rosapi", "screen",
         << [port |-> LaunchConfiguration("port")] >>)

rosapi_node_log_output ==
    Node("rosapi", "rosapi_node", "rosapi", "log", << >>)

rosapi_node ==
    Node("rosapi", "rosapi_node", "rosapi", "screen", << >>)

\* Variants of generate_launch_description: the two nodes swapped; the bridge
\* node put before the declaration it depends on.
generate_launch_description_nodes_swapped ==
    LaunchDescription(<<port_arg, rosapi_node, rosbridge_node>>)

generate_launch_description_node_first ==
    LaunchDescription(<<rosbridge_node, port_arg, rosapi_node>>)

generate_launch_description ==
    LaunchDescription(<<port_arg, rosbridge_node, rosapi_node>>)

(***************************************************************************)
(* What visiting an entity does.                                           *)
(***************************************************************************)
IsSubstitution(v) == "LaunchConfiguration" \in DOMAIN v

\* The launch configurations a parameter dictionary refers to.
ReferencedIn(d) ==
    {d[k].LaunchConfiguration : k \in {q \in DOMAIN d : IsSubstitution(d[q])}}

\* The launch configurations an entity refers to.
References(e) ==
    IF e.kind = "Node"
    THEN UNION {ReferencedIn(e.parameters[m]) : m \in DOMAIN e.parameters}
    ELSE {}

\* A parameter dictionary with its substitutions performed under lc.
EvaluateParameterDict(d, lc) ==
    [k \in DOMAIN d |->
        IF IsSubstitution(d[k]) THEN PyStr(lc[d[k].LaunchConfiguration])
        ELSE d[k]]

\* The process spec a Node starts once its parameters are resolved.
ResolvedNode(e, lc) ==
    [package |-> e.package,
     executable |-> e.executable,
     name |-> e.name,
     output |-> e.output,
     parameters |-> [m \in DOMAIN e.parameters |->
                        EvaluateParameterDict(e.parameters[m], lc)]]

\* The configurations after a declaration is visited: an unset one takes
\* the default, a set one (given on the command line) is kept.
AfterDeclare(e, lc) ==
    IF e.name \in DOMAIN lc \/ e.default_value = None THEN lc
    ELSE (e.name :> e.default_value.str) @@ lc

\* The error a declaration raises, "ok" when it raises none.
DeclareOutcome(e, lc) ==
    IF e.name \notin DOMAIN lc /\ e.default_value = None
    THEN "RuntimeError"
    ELSE IF e.choices # None /\ AfterDeclare(e, lc)[e.name] \notin e.choices.set
         THEN "RuntimeError"
         ELSE "ok"

(***************************************************************************)
(* The launch run.                                                         *)
(***************************************************************************)
Init ==
    /\ pc = "idle"
    /\ run = 1
    /\ argv = EmptyDict
    /\ launch_configurations = EmptyDict
    /\ entities = << >>
    /\ idx = 1
    /\ declared = {}
    /\ spawned = << >>
    /\ outcome = "ok"
    /\ history = << >>

\* The launch arguments a run can be started with: none, or port:=v.
LaunchArguments == {EmptyDict} \cup {("port" :> v) : v \in PortValues}

\* A launch run starts; its launch arguments become launch configurations.
Invoke ==
    /\ pc = "idle"
    /\ run <= MaxRuns
    /\ \E args \in LaunchArguments :
          /\ argv' = args
          /\ launch_configurations' = args
    /\ pc' = "load"
    /\ entities' = << >>
    /\ idx' = 1
    /\ declared' = {}
    /\ spawned' = << >>
    /\ outcome' = "ok"
    /\ UNCHANGED <<run, history>>

\* The run calls generate_launch_description().
Load ==
    /\ pc = "load"
    /\ entities' = generate_launch_description
    /\ pc' = "visit"
    /\ UNCHANGED <<run, argv, launch_configurations, idx, declared, spawned,
                   outcome, history>>

Visiting == pc = "visit" /\ outcome = "ok" /\ idx <= Len(entities)

\* The run visits a DeclareLaunchArgument.
VisitDeclareLaunchArgument ==
    /\ Visiting
    /\ entities[idx].kind = "DeclareLaunchArgument"
    /\ outcome' = DeclareOutcome(entities[idx], launch_configurations)
    /\ launch_configurations' = AfterDeclare(entities[idx], launch_configurations)
    /\ declared' = declared \cup {entities[idx].name}
    /\ idx' = idx + 1
    /\ UNCHANGED <<pc, run, argv, entities, spawned, history>>

\* The run visits a Node: its parameters are resolved and the process spec
\* is started, or a substitution of an unset configuration fails.
VisitNode ==
    /\ Visiting
    /\ entities[idx].kind = "Node"
    /\ IF References(entities[idx]) \subseteq DOMAIN launch_configurations
       THEN /\ spawned' = Append(spawned,
                            ResolvedNode(entities[idx], launch_configurations))
            /\ outcome' = "ok"
       ELSE /\ spawned' = spawned
            /\ outcome' = "SubstitutionFailure"
    /\ idx' = idx + 1
    /\ UNCHANGED <<pc, run, argv, launch_configurations, entities, declared,
                   history>>

\* The run ends: every entity was visited, or an error stopped it.
Finish ==
    /\ pc = "visit"
    /\ outcome # "ok" \/ idx > Len(entities)
    /\ history' = Append(history,
                    [argv |-> argv,
                     entities |-> entities,
                     declared |-> declared,
                     launch_configurations |-> launch_configurations,
                     spawned |-> spawned,
                     outcome |-> outcome])
    /\ run' = run + 1
    /\ pc' = "idle"
    /\ UNCHANGED <<argv, launch_configurations, entities, idx, declared,
                   spawned, outcome>>

Next ==
    \/ Invoke
    \/ Load
    \/ VisitDeclareLaunchArgument
    \/ VisitNode
    \/ Finish

Spec == Init /\ [][Next]_vars

(***************************************************************************)
(* Reading the finished runs.                                              *)
(***************************************************************************)
IsBridge(n) ==
    n.package = "rosbridge_server" /\ n.executable = "rosbridge_websocket"

IsApi(n) == n.package = "rosapi" /\ n.executable = "rosapi_node"

\* The bridge process specs, and the API process specs, a run started.
BridgeSpecs(r) == {r.spawned[k] : k \in {q \in DOMAIN r.spawned : IsBridge(r.spawned[q])}}

ApiSpecs(r) == {r.spawned[k] : k \in {q \in DOMAIN r.spawned : IsApi(r.spawned[q])}}

\* The keys of the bridge node's parameters other than port.
OtherBridgeKeys ==
    {"address", "use_compression", "max_message_size",
     "send_action_goals_in_new_thread", "call_services_in_new_thread",
     "default_call_service_timeout"}

\* A run given port:=v.
Overridden(r) == "port" \in DOMAIN r.argv

\* A process spec without the bridge node's port parameter.
WithoutBridgePort(n) ==
    IF IsBridge(n)
    THEN [n EXCEPT !.parameters =
            [m \in DOMAIN n.parameters |->
                [k \in (DOMAIN n.parameters[m]) \ {"port"} |-> n.parameters[m][k]]]]
    ELSE n

\* The shape of the returned list: the port declaration, the bridge node,
\* the API node, and nothing else.
ThreeEntitiesInOrder(es) ==
    /\ Len(es) = 3
    /\ Cardinality({k \in DOMAIN es : es[k].kind = "DeclareLaunchArgument"}) = 1
    /\ Cardinality({k \in DOMAIN es : es[k].kind = "Node"}) = 2
    /\ es[1].kind = "DeclareLaunchArgument" /\ es[1].name = "port"
    /\ es[2].kind = "Node" /\ IsBridge(es[2])
    /\ es[3].kind = "Node" /\ IsApi(es[3])

(***************************************************************************)
(* Properties.                                                             *)
(***************************************************************************)

\* C1: a run given no port argument starts the bridge node, and the bridge
\* node's port parameter is the declared default "9090".
C1_DefaultPort ==
    \A i \in DOMAIN history :
        ~Overridden(history[i]) =>
            /\ history[i].outcome = "ok"
            /\ BridgeSpecs(history[i]) # {}
            /\ \A b \in BridgeSpecs(history[i]) :
                  /\ Len(b.parameters) = 1
                  /\ b.parameters[1].port = PyStr("9090")

C1_Witness ==
    \E i \in DOMAIN history :
        /\ ~Overridden(history[i])
        /\ \E b \in BridgeSpecs(history[i]) : b.parameters[1].port = PyStr("9090")

\* C2: a run given port:=v starts the bridge node with port = v, and every
\* other bridge parameter has the value it has in a run given no argument.
C2_OverridePort ==
    \A i \in DOMAIN history :
        Overridden(history[i]) =>
            /\ BridgeSpecs(history[i]) # {}
            /\ \A b \in BridgeSpecs(history[i]) :
                  /\ Len(b.parameters) = 1
                  /\ b.parameters[1].port = PyStr(history[i].argv.port)
                  /\ \A j \in DOMAIN history :
                        ~Overridden(history[j]) =>
                            /\ BridgeSpecs(history[j]) # {}
                            /\ \A b0 \in BridgeSpecs(history[j]) :
                                  /\ DOMAIN b.parameters[1] = DOMAIN b0.parameters[1]
                                  /\ OtherBridgeKeys \subseteq DOMAIN b.parameters[1]
                                  /\ \A k \in OtherBridgeKeys :
                                        b.parameters[1][k] = b0.parameters[1][k]

C2_Witness ==
    \E i, j \in DOMAIN history :
        /\ Overridden(history[i]) /\ history[i].argv.port = "8080"
        /\ ~Overridden(history[j])
        /\ \E b \in BridgeSpecs(history[i]) : b.parameters[1].port = PyStr("8080")
        /\ BridgeSpecs(history[j]) # {}

\* C3: the launch description always holds exactly three entities: the port
\* declaration, then the bridge node, then the API node.
C3_ThreeEntities ==
    /\ pc = "visit" => ThreeEntitiesInOrder(entities)
    /\ \A i \in DOMAIN history : ThreeEntitiesInOrder(history[i].entities)

C3_Witness ==
    /\ pc = "visit"
    /\ Overridden([argv |-> argv])
    /\ Len(entities) = 3
    /\ Len(history) = 1

\* C4: the bridge node's parameters are exactly the seven keys of the table,
\* port being the resolved port configuration and the six others the
\* literals of the table.
C4_BridgeParameters ==
    \A i \in DOMAIN history :
        /\ BridgeSpecs(history[i]) # {}
        /\ \A b \in BridgeSpecs(history[i]) :
              /\ Len(b.parameters) = 1
              /\ DOMAIN b.parameters[1] = OtherBridgeKeys \cup {"port"}
              /\ b.parameters[1] =
                    [port |-> PyStr(history[i].launch_configurations["port"]),
                     address |-> PyStr("0.0.0.0"),
                     use_compression |-> PyBool(FALSE),
                     max_message_size |-> PyInt(10000000),
                     send_action_goals_in_new_thread |-> PyBool(TRUE),
                     call_services_in_new_thread |-> PyBool(TRUE),
                     default_call_service_timeout |-> PyFloat("5.0")]

C4_Witness ==
    \E i \in DOMAIN history :
        \E b \in BridgeSpecs(history[i]) :
            /\ Cardinality(DOMAIN b.parameters[1]) = 7
            /\ b.parameters[1].max_message_size = PyInt(10000000)

\* C5: the API node carries no parameter, as constructed and as started,
\* whatever the port argument.
C5_ApiNoParameters ==
    \A i \in DOMAIN history :
        /\ ApiSpecs(history[i]) # {}
        /\ \A a \in ApiSpecs(history[i]) : a.parameters = << >>
        /\ \A k \in DOMAIN history[i].entities :
              (history[i].entities[k].kind = "Node" /\ IsApi(history[i].entities[k]))
                  => history[i].entities[k].parameters = << >>

C5_Witness ==
    \E i, j \in DOMAIN history :
        /\ Overridden(history[i]) /\ ~Overridden(history[j])
        /\ \E a \in ApiSpecs(history[i]) : a.parameters = << >>
        /\ \E a \in ApiSpecs(history[j]) : a.parameters = << >>

C7_OnlyPortVaries ==
    \A i, j \in DOMAIN history :
        /\ history[i].entities = history[j].entities
        /\ history[i].declared = history[j].declared
        /\ history[i].outcome = history[j].outcome
        /\ Len(history[i].spawned) = Len(history[j].spawned)
        /\ \A k \in DOMAIN history[i].spawned :
              WithoutBridgePort(history[i].spawned[k])
                  = WithoutBridgePort(history[j].spawned[k])

C7_Witness ==
    /\ Len(history) >= 2
    /\ Overridden(history[1]) /\ Overridden(history[2])
    /\ history[1].argv.port # history[2].argv.port
    /\ Len(history[1].spawned) = 2
    /\ history[1].spawned[1].parameters[1].port
          # history[2].spawned[1].parameters[1].port

\* C8: no run ends in an error, and every value given for port, empty,
\* non-numeric or out of range included, reaches the bridge node's port
\* parameter as given.
C8_NoValidation ==
    /\ outcome = "ok"
    /\ \A i \in DOMAIN history :
          /\ history[i].outcome = "ok"
          /\ Len(history[i].spawned) = 2
          /\ Overridden(history[i]) =>
                /\ history[i].launch_configurations["port"] = history[i].argv.port
                /\ \E b \in BridgeSpecs(history[i]) :
                      b.parameters[1].port = PyStr(history[i].argv.port)

C8_Witness ==
    /\ Len(history) >= 2
    /\ Overridden(history[1]) /\ Overridden(history[2])
    /\ {history[1].argv.port, history[2].argv.port} \subseteq {"", "abc", "70000"}
    /\ history[1].argv.port # history[2].argv.port
    /\ \E b \in BridgeSpecs(history[2]) :
          b.parameters[1].port = PyStr(history[2].argv.port)

\* C9: an entity that refers to the port configuration is visited only
\* after the declaration of port was visited, no substitution fails, and
\* the only entity that refers to port is the bridge node, placed after
\* the declaration.
C9_DeclareBeforeUse ==
    /\ outcome # "SubstitutionFailure"
    /\ Visiting =>
          /\ References(entities[idx]) \subseteq declared
          /\ References(entities[idx]) \subseteq DOMAIN launch_configurations
    /\ pc = "visit" =>
          \A k \in DOMAIN entities :
              References(entities[k]) # {} =>
                  /\ IsBridge(entities[k])
                  /\ References(entities[k]) = {"port"}
                  /\ \E d \in 1..(k - 1) :
                        /\ entities[d].kind = "DeclareLaunchArgument"
                        /\ entities[d].name = "port"

C9_Witness ==
    /\ Visiting
    /\ ~Overridden([argv |-> argv])
    /\ References(entities[idx]) = {"port"}
    /\ "port" \in declared

\* C10: both process specs send their output to "screen"; the bridge node
\* is rosbridge_server / rosbridge_websocket / rosbridge_websocket, the API
\* node rosapi / rosapi_node / rosapi, in every run.
C10_IdentityAndOutput ==
    \A i \in DOMAIN history :
        /\ Len(history[i].spawned) = 2
        /\ \A k \in DOMAIN history[i].spawned : history[i].spawned[k].output = "screen"
        /\ [f \in {"package", "executable", "name"} |-> history[i].spawned[1][f]]
              = [package |-> "rosbridge_server",
                 executable |-> "rosbridge_websocket",
                 name |-> "rosbridge_websocket"]
        /\ [f \in {"package", "executable", "name"} |-> history[i].spawned[2][f]]
              = [package |-> "rosapi",
                 executable |-> "rosapi_node",
                 name |-> "rosapi"]
        /\ \A k \in DOMAIN history[i].entities :
              history[i].entities[k].kind = "Node"
                  => history[i].entities[k].output = "screen"

C10_Witness ==
    \E i, j \in DOMAIN history :
        /\ history[i].argv # history[j].argv
        /\ history[i].spawned[1].name = "rosbridge_websocket"
        /\ history[j].spawned[2].name = "rosapi"
        /\ history[j].spawned[2].output = "screen"

=============================================================================
